---- MODULE Spec2Model ----
(***************************************************************************)
(* Nano-Torrent: the piece manager (piece_manager.py, piece.py, block.py), *)
(* the message loop of a peer connection and the wire codec                *)
(* (peer_connection.py).                                                   *)
(*                                                                         *)
(* Every method is translated statement by statement.  A statement that    *)
(* raises in Python ends the method there: the assignments made before it  *)
(* are kept, the ones after it never happen, and the exception is the      *)
(* result of the call.  The names of the exceptions are the Python ones.   *)
(*                                                                         *)
(* The piece manager is modelled as an object: Init is the object that     *)
(* __init__ (lines 24-33) builds around a list of pieces, and every public *)
(* method is an action that any caller may take.  PieceManager.__init__    *)
(* itself cannot finish (initiate_pieces calls math.ciel, line 43), so the *)
(* piece list is an input of Init, drawn from the lists the loop of lines  *)
(* 47-64 is written to build.                                              *)
(*                                                                         *)
(* A peer connection is modelled in its message loop, from the state that  *)
(* lines 91-97 of start establish; a step is the loop body for one         *)
(* message.  The stream iterator is driven one turn of __anext__ at a      *)
(* time over a reader that returns given chunks, and encode and decode are *)
(* computed byte by byte as struct packs and unpacks them.                 *)
(***************************************************************************)
EXTENDS Integers, Sequences, FiniteSets, TLC

\* ---------------------------------------------------------------- bounds
MaxPieces == 2
MaxBlocks == 3
MaxEpochs == 1
MaxFlag == 2
MaxCuts == 2
MaxYield == 3
MaxQueue == 2

\* ------------------------------------------------------ program constants
REQUEST_SIZE == 16384
max_pending_time == 300000

None == "None"
NoData == <<-1>>   \* a block's data before any is stored (Python None)

\* what a call returns or raises
RetNone == [kind |-> "None"]
Raise(exception) == [kind |-> "raise", exc |-> exception]
RetBlock(piece, offset) == [kind |-> "block", piece |-> piece, offset |-> offset]
RetPiece(index) == [kind |-> "piece", index |-> index]
RetClass(name) == [kind |-> "class", name |-> name]
Missing == 0
Pending == 1
Retrieved == 2

PeerIds == {"A", "B"}
DataVals == {<<1>>, <<2>>}

VARIABLES
  total_pieces,     \* PieceManager.total_pieces
  pieces,           \* the Piece objects: index -> [hash, blocks]
  missing_pieces,   \* PieceManager.missing_pieces (list of piece indices)
  ongoing_pieces,   \* PieceManager.ongoing_pieces
  have_pieces,      \* PieceManager.have_pieces
  peers,            \* PieceManager.peers: peer id -> bitfield
  pending_blocks,   \* PieceManager.pending_blocks: list of PendingRequest
  written,          \* what has been written through PieceManager.fd
  torrent,          \* PieceManager.torrent: piece_length and total_size
  now,              \* int(round(time.time() * 1000))
  lastCall,         \* the last call made and what it returned or raised
  conn_pc,          \* where each PeerConnection.start stands
  remote_id,        \* PeerConnection.remote_id
  my_state,         \* PeerConnection.my_state
  peer_state,       \* PeerConnection.peer_state
  requested,        \* the block of the last Request each connection wrote
  chunks,           \* what the reader's next read calls will return
  buffer,           \* PeerStreamIterator.buffer
  yielded,          \* the messages __anext__ has returned so far
  it_pc,            \* whether the iteration is open or has stopped
  fed,              \* the messages whose frames the reader was given
  message,          \* a message object
  encoded,          \* what message.encode() returned or raised
  decoded,          \* what decode of those bytes returned or raised
  available_peers,  \* TorrentClient.available_peers, the queue of peers
  unfinished,       \* the queue's count of items put and not yet task_done
  conn_peer,        \* the peer each worker took from the queue
  writer,           \* PeerConnection.writer: None, open or closed
  cancel_requested, \* the worker's task has a cancellation to deliver
  wrote,            \* the messages each worker wrote to its writers
  outcome,          \* how each worker's last attempt at a peer ended
  client_pc,        \* where TorrentClient.start stands
  abort,            \* TorrentClient.abort
  previous,         \* start's local previous, the time of the last announce
  interval,         \* start's local interval, in seconds
  client_exc,       \* the exception that ended TorrentClient.start
  tracker_says      \* what the tracker answers to an announce made now

pmvars == <<total_pieces, pieces, missing_pieces, ongoing_pieces, have_pieces,
            peers, pending_blocks, written, torrent, now>>
connvars == <<conn_pc, remote_id, my_state, peer_state, requested>>
streamvars == <<chunks, buffer, yielded, it_pc, fed>>
codecvars == <<message, encoded, decoded>>
workervars == <<available_peers, unfinished, conn_peer, writer,
                cancel_requested, wrote, outcome>>
clientvars == <<client_pc, abort, previous, interval, client_exc,
                tracker_says>>
vars == <<pmvars, lastCall, connvars, streamvars, codecvars, workervars,
          clientvars>>

\* ------------------------------------------------------------ list helpers
Range(s) == {s[k] : k \in DOMAIN s}

Min(S) == CHOOSE x \in S : \A y \in S : x <= y

RemoveAt(s, k) == SubSeq(s, 1, k - 1) \o SubSeq(s, k + 1, Len(s))

\* list.remove(x): drops the first occurrence
ListRemove(s, x) == RemoveAt(s, Min({k \in DOMAIN s : s[k] = x}))

RECURSIVE Concat(_)
Concat(ss) == IF ss = <<>> THEN <<>> ELSE Head(ss) \o Concat(Tail(ss))

\* hashlib.sha1(...).digest(), abstracted to a small digest of the bytes
RECURSIVE Sha1From(_, _)
Sha1From(h, s) == IF s = <<>> THEN h
                  ELSE Sha1From((h * 31 + Head(s) + 7) % 251, Tail(s))
Sha1(s) == Sha1From(17, s)

\* ------------------------------------------------------------------ Block
Block(piece, offset, length) ==
  [piece |-> piece, offset |-> offset, length |-> length,
   status |-> Missing, data |-> NoData]

\* ------------------------------------------------------------------ Piece
NewPiece(index, blocks, hash_value) ==
  [index |-> index, blocks |-> blocks, hash |-> hash_value]

\* Piece.reset
Piece_reset(piece) ==
  [piece EXCEPT !.blocks = [k \in DOMAIN piece.blocks |->
                              [piece.blocks[k] EXCEPT !.status = Missing]]]

\* Piece.next_request: the first Missing block becomes Pending and is returned
Piece_missing(piece) == {k \in DOMAIN piece.blocks : piece.blocks[k].status = Missing}

Piece_next_request_unmarked(piece) ==
  IF Piece_missing(piece) # {}
  THEN LET k == Min(Piece_missing(piece))
       IN [piece |-> piece,
           ret |-> RetBlock(piece.index, piece.blocks[k].offset)]
  ELSE [piece |-> piece, ret |-> RetNone]

Piece_next_request(piece) ==
  IF Piece_missing(piece) # {}
  THEN LET k == Min(Piece_missing(piece))
       IN [piece |-> [piece EXCEPT !.blocks[k].status = Pending],
           ret |-> RetBlock(piece.index, piece.blocks[k].offset)]
  ELSE [piece |-> piece, ret |-> RetNone]

\* Piece.data: b''.join of the blocks' data sorted by offset; TypeError when
\* a block holds no data yet
Piece_data(piece) ==
  IF \E k \in DOMAIN piece.blocks : piece.blocks[k].data = NoData
  THEN Raise("TypeError")
  ELSE [kind |-> "bytes",
        bytes |-> Concat([k \in DOMAIN piece.blocks |-> piece.blocks[k].data])]

\* Piece.is_complete: compares the digest of Piece.data with Piece.hash
Piece_is_complete(piece) ==
  IF Piece_data(piece).kind = "raise" THEN Piece_data(piece)
  ELSE [kind |-> "bool", bool |-> Sha1(Piece_data(piece).bytes) = piece.hash]

\* ----------------------------------------------------------- PieceManager
PieceIdx == 0 .. (total_pieces - 1)

Bitfields == [PieceIdx -> BOOLEAN]

\* the times the clock is read at
TimePoints ==
  {0} \cup {e * max_pending_time + d : e \in 1 .. MaxEpochs, d \in 0 .. 1}

\* the content the metainfo describes, block by block
TrueData(n) == [k \in 1 .. n |-> <<1>>]

\* the piece list of lines 47-64: std blocks in every piece but the last,
\* which has last blocks
InitPieces(n, std, last) ==
  [i \in 0 .. (n - 1) |->
     NewPiece(i,
              [k \in 1 .. (IF i < n - 1 THEN std ELSE last) |->
                 Block(i, (k - 1) * REQUEST_SIZE, REQUEST_SIZE)],
              Sha1(Concat(TrueData(IF i < n - 1 THEN std ELSE last))))]

RECURSIVE SeqOf(_, _)
SeqOf(lo, hi) == IF lo > hi THEN <<>> ELSE <<lo>> \o SeqOf(lo + 1, hi)

\* how many blocks the torrent has
BlocksIn(n, std, last) == IF n = 0 THEN 0 ELSE (n - 1) * std + last

PieceManagerInit ==
  \E n \in 0 .. MaxPieces, std \in 1 .. MaxBlocks :
  \E last \in 1 .. std :
    /\ BlocksIn(n, std, last) <= MaxBlocks
    /\ total_pieces = n
    /\ pieces = InitPieces(n, std, last)
    /\ missing_pieces = SeqOf(0, n - 1)
    /\ ongoing_pieces = <<>>
    /\ have_pieces = <<>>
    /\ peers = <<>>
    /\ pending_blocks = <<>>
    /\ written = <<>>
    /\ torrent = [piece_length |-> std * REQUEST_SIZE,
                  total_size |-> IF n = 0 THEN 0
                                 ELSE (n - 1) * std * REQUEST_SIZE
                                      + last * REQUEST_SIZE]


\* PieceManager.complete
complete_no_missing == Len(missing_pieces) = 0

complete == Len(have_pieces) = total_pieces

\* PieceManager.add_peer
add_peer(peer_id, bitfield) ==
  /\ peers' = [q \in DOMAIN peers \cup {peer_id} |->
                 IF q = peer_id THEN bitfield ELSE peers[q]]
  /\ UNCHANGED <<total_pieces, pieces, missing_pieces, ongoing_pieces,
                 have_pieces, pending_blocks, written, torrent, now>>

\* PieceManager.update_peer
update_peer(peer_id, index) ==
  /\ peers' = IF peer_id \in DOMAIN peers
              THEN [peers EXCEPT ![peer_id][index] = TRUE]
              ELSE peers
  /\ UNCHANGED <<total_pieces, pieces, missing_pieces, ongoing_pieces,
                 have_pieces, pending_blocks, written, torrent, now>>

\* PieceManager.remove_peer
remove_peer(peer_id) ==
  /\ peers' = [q \in DOMAIN peers \ {peer_id} |-> peers[q]]
  /\ UNCHANGED <<total_pieces, pieces, missing_pieces, ongoing_pieces,
                 have_pieces, pending_blocks, written, torrent, now>>

\* PieceManager.expired_requests: the pending requests whose piece the peer
\* claims and that are older than max_pending_time; the loop stops at the
\* first of them in list order
IsExpired(request) == request.added + max_pending_time < now

ExpiredFor(peer_id) ==
  {k \in DOMAIN pending_blocks :
     /\ peers[peer_id][pending_blocks[k].block.piece]
     /\ IsExpired(pending_blocks[k])}

\* line 235 assigns request.added, a field of a namedtuple: AttributeError
expired_requests(peer_id) ==
  IF ExpiredFor(peer_id) # {} THEN Raise("AttributeError") ELSE RetNone

\* PieceManager.self_ongoing: the ongoing pieces the peer claims that still
\* have a Missing block; the loop stops at the first of them
OngoingFor(peer_id) ==
  {k \in DOMAIN ongoing_pieces :
     /\ peers[peer_id][ongoing_pieces[k]]
     /\ Piece_missing(pieces[ongoing_pieces[k]]) # {}}

self_ongoing_result(peer_id) ==
  IF peer_id \notin DOMAIN peers
  THEN IF ongoing_pieces = <<>> THEN RetNone ELSE Raise("KeyError")
  ELSE IF OngoingFor(peer_id) = {} THEN RetNone
  ELSE RetClass("Block")   \* line 253 returns the class, not the block

self_ongoing(peer_id) ==
  IF self_ongoing_result(peer_id).kind # "class"
  THEN UNCHANGED pmvars
  ELSE LET i == ongoing_pieces[Min(OngoingFor(peer_id))]
           r == Piece_next_request(pieces[i])
       IN /\ pieces' = [pieces EXCEPT ![i] = r.piece]
          /\ pending_blocks' = Append(pending_blocks,
                                      [block |-> [piece |-> r.ret.piece,
                                                  offset |-> r.ret.offset],
                                       added |-> now])
          /\ UNCHANGED <<total_pieces, missing_pieces, ongoing_pieces,
                         have_pieces, peers, written, torrent, now>>

\* PieceManager.get_rarest_piece
piece_count(peer_id) ==
  [i \in {j \in Range(missing_pieces) : peers[peer_id][j]} |->
     Cardinality({q \in DOMAIN peers : peers[q][i]})]

\* min(piece_count, key=...): the first key, in insertion order (the order
\* of missing_pieces), that has the least count
RarestIn(count) ==
  missing_pieces[Min({k \in DOMAIN missing_pieces :
                        /\ missing_pieces[k] \in DOMAIN count
                        /\ \A j \in DOMAIN count :
                             count[missing_pieces[k]] <= count[j]})]

\* lines 274-275
MoveToOngoing_keep(rarest_piece) ==
  /\ missing_pieces' = missing_pieces
  /\ ongoing_pieces' = Append(ongoing_pieces, rarest_piece)

MoveToOngoing(rarest_piece) ==
  /\ missing_pieces' = ListRemove(missing_pieces, rarest_piece)
  /\ ongoing_pieces' = Append(ongoing_pieces, rarest_piece)

get_rarest_piece_result(peer_id) ==
  IF peer_id \notin DOMAIN peers
  THEN IF missing_pieces = <<>> THEN Raise("ValueError") ELSE Raise("KeyError")
  ELSE IF DOMAIN piece_count(peer_id) = {} THEN Raise("ValueError")
  ELSE RetPiece(RarestIn(piece_count(peer_id)))

get_rarest_piece(peer_id) ==
  IF get_rarest_piece_result(peer_id).kind = "raise"
  THEN UNCHANGED pmvars
  ELSE /\ MoveToOngoing(get_rarest_piece_result(peer_id).index)
       /\ UNCHANGED <<total_pieces, pieces, have_pieces, peers,
                      pending_blocks, written, torrent, now>>

\* PieceManager.next_request: None for an unknown peer; otherwise either
\* expired_requests raises (line 235) or line 158 does, next_ongoing being
\* no attribute of the class (the method is named self_ongoing)
next_request_result(peer_id) ==
  IF peer_id \notin DOMAIN peers THEN RetNone
  ELSE IF expired_requests(peer_id) # RetNone THEN expired_requests(peer_id)
  ELSE Raise("AttributeError")

next_request(peer_id) == UNCHANGED pmvars

\* PieceManager.block_recieved
MatchingRequests(piece_index, block_offset) ==
  {k \in DOMAIN pending_blocks :
     /\ pending_blocks[k].block.piece = piece_index
     /\ pending_blocks[k].block.offset = block_offset}

RemovePending_keep(piece_index, block_offset) == pending_blocks

RemovePending(piece_index, block_offset) ==
  IF MatchingRequests(piece_index, block_offset) = {} THEN pending_blocks
  ELSE RemoveAt(pending_blocks, Min(MatchingRequests(piece_index, block_offset)))

\* line 193 calls piece.block_received, which Piece does not define (its
\* method is block_recieved): AttributeError once the piece is found
block_recieved_result(piece_index) ==
  IF piece_index \in Range(ongoing_pieces) THEN Raise("AttributeError")
  ELSE RetNone

block_recieved(peer_id, piece_index, block_offset, data) ==
  /\ pending_blocks' = RemovePending(piece_index, block_offset)
  /\ UNCHANGED <<total_pieces, pieces, missing_pieces, ongoing_pieces,
                 have_pieces, peers, written, torrent, now>>

\* ------------------------------------------------- the calls, as observed
\* lastCall records the call a step made to one of the two entry points of
\* the piece manager, next_request and block_recieved: which method, for
\* which peer, and what it returned or raised.  For block_recieved it also records got,
\* the data delivered block by block to the same ongoing piece by this call
\* and the block_recieved calls immediately before it, starting afresh once
\* every block of the piece has been covered.
Call(op, peer, result) == [op |-> op, peer |-> peer, result |-> result]

\* a call that is not observed: the helpers, the clock
Quiet == Call("-", None, RetNone)

Covers(got) == \A k \in DOMAIN got : got[k] # NoData

NothingGot(piece_index) ==
  [k \in DOMAIN pieces[piece_index].blocks |-> NoData]

GotBefore(piece_index) ==
  IF /\ lastCall.op = "block_recieved"
     /\ lastCall.piece = piece_index
     /\ ~Covers(lastCall.got)
  THEN lastCall.got
  ELSE NothingGot(piece_index)

GotWith(piece_index, block_offset, data) ==
  IF piece_index \notin Range(ongoing_pieces) THEN NothingGot(piece_index)
  ELSE [k \in DOMAIN pieces[piece_index].blocks |->
          IF pieces[piece_index].blocks[k].offset = block_offset THEN data
          ELSE GotBefore(piece_index)[k]]

\* ---------------------------------------------------------------- actions
AddPeer ==
  \E p \in PeerIds, bf \in Bitfields :
    /\ add_peer(p, bf)
    /\ lastCall' = Quiet
    /\ UNCHANGED <<connvars, streamvars, codecvars, workervars, clientvars>>

UpdatePeer ==
  \E p \in PeerIds, i \in PieceIdx :
    /\ update_peer(p, i)
    /\ lastCall' = Quiet
    /\ UNCHANGED <<connvars, streamvars, codecvars, workervars, clientvars>>

RemovePeer ==
  \E p \in PeerIds :
    /\ remove_peer(p)
    /\ lastCall' = Quiet
    /\ UNCHANGED <<connvars, streamvars, codecvars, workervars, clientvars>>

NextRequest ==
  \E p \in PeerIds :
    /\ next_request(p)
    /\ lastCall' = Call("next_request", p, next_request_result(p))
    /\ UNCHANGED <<connvars, streamvars, codecvars, workervars, clientvars>>

SelfOngoing ==
  \E p \in PeerIds :
    /\ self_ongoing(p)
    /\ lastCall' = Quiet
    /\ UNCHANGED <<connvars, streamvars, codecvars, workervars, clientvars>>

GetRarestPiece ==
  \E p \in PeerIds :
    /\ get_rarest_piece(p)
    /\ lastCall' = Quiet
    /\ UNCHANGED <<connvars, streamvars, codecvars, workervars, clientvars>>

BlockRecieved ==
  \E p \in PeerIds, i \in PieceIdx, d \in DataVals :
  \E k \in DOMAIN pieces[i].blocks :
    /\ block_recieved(p, i, pieces[i].blocks[k].offset, d)
    /\ lastCall' = [op |-> "block_recieved", peer |-> None,
                    result |-> block_recieved_result(i),
                    piece |-> i, offset |-> pieces[i].blocks[k].offset,
                    got |-> GotWith(i, pieces[i].blocks[k].offset, d)]
    /\ UNCHANGED <<connvars, streamvars, codecvars, workervars, clientvars>>

\* time passes between two calls
Tick ==
  /\ \E t \in TimePoints : t > now /\ now' = t
  /\ lastCall' = Quiet
  /\ UNCHANGED <<connvars, streamvars, codecvars, workervars, clientvars>>
  /\ UNCHANGED <<total_pieces, pieces, missing_pieces, ongoing_pieces,
                 have_pieces, peers, pending_blocks, written, torrent>>

\* the same calls with nobody observing them, and the clock standing still
AddPeerCall ==
  /\ \E p \in PeerIds, bf \in Bitfields : add_peer(p, bf)
  /\ UNCHANGED <<lastCall, connvars, streamvars, codecvars, workervars, clientvars>>

UpdatePeerCall ==
  /\ \E p \in PeerIds, i \in PieceIdx : update_peer(p, i)
  /\ UNCHANGED <<lastCall, connvars, streamvars, codecvars, workervars, clientvars>>

RemovePeerCall ==
  /\ \E p \in PeerIds : remove_peer(p)
  /\ UNCHANGED <<lastCall, connvars, streamvars, codecvars, workervars, clientvars>>

NextRequestCall ==
  /\ \E p \in PeerIds : next_request(p)
  /\ UNCHANGED <<lastCall, connvars, streamvars, codecvars, workervars, clientvars>>

SelfOngoingCall ==
  /\ \E p \in PeerIds : self_ongoing(p)
  /\ UNCHANGED <<lastCall, connvars, streamvars, codecvars, workervars, clientvars>>

GetRarestPieceCall ==
  /\ \E p \in PeerIds : get_rarest_piece(p)
  /\ UNCHANGED <<lastCall, connvars, streamvars, codecvars, workervars, clientvars>>

BlockRecievedCall ==
  /\ \E p \in PeerIds, i \in PieceIdx, d \in DataVals :
     \E k \in DOMAIN pieces[i].blocks :
       block_recieved(p, i, pieces[i].blocks[k].offset, d)
  /\ UNCHANGED <<lastCall, connvars, streamvars, codecvars, workervars, clientvars>>

\* ------------------------------------------------------------ the messages
\* Bytes are numbers 0 .. 255 and a bytes object is a sequence of them.  A
\* message object is a record of its class (kind) and its attributes.
Bytes(b) == [kind |-> "bytes", bytes |-> b]

\* b[lo:hi] of Python
Slice(b, lo, hi) == SubSeq(b, lo + 1, IF hi < Len(b) THEN hi ELSE Len(b))

\* struct.pack('>I', n) and struct.unpack('>I', b)
PackI(n) ==
  <<(n \div 16777216) % 256, (n \div 65536) % 256, (n \div 256) % 256, n % 256>>

UnpackI(b) == ((b[1] * 256 + b[2]) * 256 + b[3]) * 256 + b[4]

\* struct.pack('>b', n) and struct.unpack('>b', b)
Packb(n) == <<n % 256>>

Unpackb(b) == IF b[1] < 128 THEN b[1] ELSE b[1] - 256

\* struct.pack of a '20s' field: cut or zero-filled to twenty bytes
Pack20s(b) == [i \in 1 .. 20 |-> IF i <= Len(b) THEN b[i] ELSE 0]

\* b'BitTorrent protocol'
Pstr ==
  <<66, 105, 116, 84, 111, 114, 114, 101, 110, 116, 32,
    112, 114, 111, 116, 111, 99, 111, 108>>

PieceLength == 9

\* PeerMessage ids
IdChoke == 0
IdUnchoke == 1
IdInterested == 2
IdNotInterested == 3
IdHave == 4
IdBitField == 5
IdRequest == 6
IdPiece == 7
IdCancel == 8
IdPort == 9

\* message.encode(): the bytes, None where the class inherits
\* PeerMessage.encode, or the exception struct raises
encode(m) ==
  IF m.kind = "Handshake"
    THEN Bytes(<<19>> \o Pstr \o [i \in 1 .. 8 |-> 0]
               \o Pack20s(m.info_hash) \o Pack20s(m.peer_id))
  ELSE IF m.kind = "BitField" THEN Raise("struct.error")
  ELSE IF m.kind = "Interested" THEN Bytes(PackI(1) \o Packb(IdInterested))
  ELSE IF m.kind = "Have"
    THEN Bytes(PackI(5) \o Packb(IdHave) \o PackI(m.index))
  ELSE IF m.kind = "Request"
    THEN Bytes(PackI(13) \o Packb(IdRequest) \o PackI(m.index)
               \o PackI(m.begin) \o PackI(m.length))
  ELSE IF m.kind = "Piece"
    THEN Bytes(PackI(PieceLength + Len(m.block)) \o Packb(IdPiece)
               \o PackI(m.index) \o PackI(m.begin) \o m.block)
  ELSE IF m.kind = "Cancel"
    THEN Bytes(PackI(13) \o Packb(IdCancel) \o PackI(m.index)
               \o PackI(m.begin) \o PackI(m.length))
  ELSE RetNone

\* cls.decode(data) for bytes data: the message, None, or the exception
\* struct.unpack raises when data is not as long as the format
decode_bytes(cls, data) ==
  IF cls = "Handshake"
    THEN IF Len(data) < 68 THEN RetNone
         ELSE IF Len(data) # 68 THEN Raise("struct.error")
         ELSE [kind |-> "Handshake", info_hash |-> Slice(data, 28, 48),
               peer_id |-> Slice(data, 48, 68)]
  ELSE IF cls = "BitField"
    THEN IF Len(data) < 4 THEN Raise("struct.error")
         ELSE IF UnpackI(Slice(data, 0, 4)) < 1 THEN Raise("struct.error")
         ELSE IF Len(data) # 4 + UnpackI(Slice(data, 0, 4))
           THEN Raise("struct.error")
         ELSE [kind |-> "BitField", bitfield |-> Slice(data, 5, Len(data))]
  ELSE IF cls = "Have"
    THEN IF Len(data) # 9 THEN Raise("struct.error")
         ELSE [kind |-> "Have", index |-> UnpackI(Slice(data, 5, 9))]
  ELSE IF cls \in {"Request", "Cancel"}
    THEN IF Len(data) # 17 THEN Raise("struct.error")
         ELSE [kind |-> cls, index |-> UnpackI(Slice(data, 5, 9)),
               begin |-> UnpackI(Slice(data, 9, 13)),
               length |-> UnpackI(Slice(data, 13, 17))]
  ELSE IF cls = "Piece"
    THEN IF Len(data) < 4 THEN Raise("struct.error")
         ELSE LET length == UnpackI(Slice(data, 0, 4))
              IN IF length < PieceLength \/ Len(data) < length + 4
                 THEN Raise("struct.error")
                 ELSE [kind |-> "Piece",
                       index |-> UnpackI(Slice(data, 5, 9)),
                       begin |-> UnpackI(Slice(data, 9, 13)),
                       block |-> Slice(data, 13, length + 4)]
  ELSE RetNone

\* cls.decode(data), data being whatever encode gave
decode(cls, data) ==
  IF data.kind = "bytes" THEN decode_bytes(cls, data.bytes)
  ELSE IF cls \in {"Handshake", "BitField", "Have", "Request", "Piece",
                   "Cancel"}
    THEN Raise("TypeError")
  ELSE RetNone

\* ---------------------------------------------------------- PeerConnection
\* Each worker is a PeerConnection.  Its message loop (start, the body of the
\* async for) is taken one message at a time: a step is the whole body for
\* one message the iterator hands over, the calls into the piece manager
\* included.  my_state and peer_state are Python lists that are only
\* appended to, removed from and tested for membership, so each is kept as
\* the number of times each flag occurs in it.
Conns == {1, 2}

StateFlags == {"choked", "interested", "pending_request", "stopped"}

NoFlags == [f \in StateFlags |-> 0]

FlagIn(state, flag) == state[flag] > 0

FlagAppend(state, flag) == [state EXCEPT ![flag] = @ + 1]

FlagRemove(state, flag) == [state EXCEPT ![flag] = @ - 1]

\* the messages the iterator can hand to the loop
LoopMessages ==
  {[kind |-> k] : k \in {"Choke", "Unchoke", "Interested", "NotInterested",
                         "KeepAlive", "Request", "Cancel"}}
  \cup {[kind |-> "BitField", bitfield |-> bf] : bf \in Bitfields}
  \cup {[kind |-> "Have", index |-> i] : i \in PieceIdx}
  \cup UNION {{[kind |-> "Piece", index |-> i,
                begin |-> pieces[i].blocks[k].offset, block |-> d] :
                 k \in DOMAIN pieces[i].blocks, d \in DataVals} :
              i \in PieceIdx}

\* PeerConnection.__init__
NewConnections ==
  /\ conn_pc = [c \in Conns |-> "new"]
  /\ remote_id = [c \in Conns |-> None]
  /\ my_state = [c \in Conns |-> NoFlags]
  /\ peer_state = [c \in Conns |-> NoFlags]
  /\ requested = [c \in Conns |-> RetNone]

\* the connections as lines 91-97 of start leave them: the handshake has
\* named the remote peer, and 'choked' and 'interested' have been appended
ConnectionsInLoop ==
  /\ conn_pc = [c \in Conns |-> "loop"]
  /\ remote_id \in [Conns -> PeerIds]
  /\ my_state = [c \in Conns |->
                   [f \in StateFlags |->
                      IF f \in {"choked", "interested"} THEN 1 ELSE 0]]
  /\ peer_state = [c \in Conns |-> NoFlags]
  /\ requested = [c \in Conns |-> RetNone]

\* the loop body raises while it dispatches the message: list.remove of an
\* absent 'pending_request', or the callback into block_recieved
DispatchRaises(c, m) ==
  /\ m.kind = "Piece"
  /\ \/ ~FlagIn(my_state[c], "pending_request")
     \/ block_recieved_result(m.index) # RetNone

\* my_state once the message has been dispatched
MyStateAfter(c, m) ==
  IF m.kind = "Choke" THEN FlagAppend(my_state[c], "choked")
  ELSE IF m.kind = "Unchoke" /\ FlagIn(my_state[c], "choked")
    THEN FlagRemove(my_state[c], "choked")
  ELSE IF m.kind = "Piece" /\ FlagIn(my_state[c], "pending_request")
    THEN FlagRemove(my_state[c], "pending_request")
  ELSE my_state[c]

PeerStateAfter(c, m) ==
  IF m.kind = "Interested" THEN FlagAppend(peer_state[c], "interested")
  ELSE IF m.kind = "NotInterested" /\ FlagIn(peer_state[c], "interested")
    THEN FlagRemove(peer_state[c], "interested")
  ELSE peer_state[c]

\* the calls the dispatch makes into the piece manager
Dispatch(c, m) ==
  \/ /\ m.kind = "BitField"
     /\ add_peer(remote_id[c], m.bitfield)
  \/ /\ m.kind = "Have"
     /\ update_peer(remote_id[c], m.index)
  \/ /\ m.kind = "Piece"
     /\ FlagIn(my_state[c], "pending_request")
     /\ block_recieved(remote_id[c], m.index, m.begin, m.block)
  \/ /\ \/ m.kind \notin {"BitField", "Have", "Piece"}
        \/ m.kind = "Piece" /\ ~FlagIn(my_state[c], "pending_request")
     /\ UNCHANGED pmvars

\* the test in front of request_piece
MayRequest_unguarded(state) ==
  /\ ~FlagIn(state, "choked")
  /\ FlagIn(state, "interested")

MayRequest(state) ==
  /\ ~FlagIn(state, "choked")
  /\ FlagIn(state, "interested")
  /\ ~FlagIn(state, "pending_request")

\* PeerConnection.start, the loop body for one message.  next_request is
\* called in the state the dispatch has left, and leaves the piece manager
\* as it found it; an exception other than the ones start handles ends the
\* worker.
HandleMessage(c, m) ==
  /\ conn_pc[c] = "loop"
  /\ ~FlagIn(my_state[c], "stopped")
  /\ m.kind = "Choke" => my_state[c]["choked"] < MaxFlag
  /\ m.kind = "Interested" => peer_state[c]["interested"] < MaxFlag
  /\ Dispatch(c, m)
  /\ UNCHANGED <<remote_id, lastCall, streamvars, codecvars, clientvars>>
  /\ UNCHANGED <<available_peers, unfinished, conn_peer, writer,
                 cancel_requested, outcome>>
  /\ LET raised == DispatchRaises(c, m)
         asks == ~raised /\ MayRequest(MyStateAfter(c, m))
         block == next_request_result(remote_id[c])'
     IN /\ my_state' = [my_state EXCEPT ![c] =
                          IF asks
                          THEN FlagAppend(MyStateAfter(c, m), "pending_request")
                          ELSE MyStateAfter(c, m)]
        /\ peer_state' = [peer_state EXCEPT ![c] = PeerStateAfter(c, m)]
        /\ requested' = IF asks /\ block.kind = "block"
                        THEN [requested EXCEPT ![c] = block]
                        ELSE requested
        /\ wrote' = IF asks /\ block.kind = "block"
                    THEN [wrote EXCEPT ![c] = Append(@, "Request")]
                    ELSE wrote
        /\ conn_pc' = IF raised \/ (asks /\ block.kind = "raise")
                      THEN [conn_pc EXCEPT ![c] = "failed"]
                      ELSE conn_pc

OnMessage == \E c \in Conns : \E m \in LoopMessages : HandleMessage(c, m)

\* ------------------------------------------------------ PeerStreamIterator
\* The frame a remote peer sends for a message: what encode gives where the
\* class has one, and for the classes without the frame parse takes for
\* them (four zero bytes for a keep-alive, length 1 and the id for the
\* others, length and id in front of the payload for a bitfield).
Frame(m) ==
  IF encode(m).kind = "bytes" THEN encode(m).bytes
  ELSE IF m.kind = "KeepAlive" THEN PackI(0)
  ELSE IF m.kind = "Choke" THEN PackI(1) \o Packb(IdChoke)
  ELSE IF m.kind = "Unchoke" THEN PackI(1) \o Packb(IdUnchoke)
  ELSE IF m.kind = "NotInterested" THEN PackI(1) \o Packb(IdNotInterested)
  ELSE IF m.kind = "Port" THEN PackI(3) \o Packb(IdPort) \o m.port
  ELSE PackI(1 + Len(m.bitfield)) \o Packb(IdBitField) \o m.bitfield

StreamMessages ==
  {[kind |-> k] : k \in {"KeepAlive", "Choke", "Interested"}}
  \cup {[kind |-> "Have", index |-> i] : i \in {0, 256}}
  \cup {[kind |-> "Request", index |-> 1, begin |-> REQUEST_SIZE,
         length |-> REQUEST_SIZE]}
  \cup {[kind |-> "Piece", index |-> 1, begin |-> 0, block |-> <<1, 2>>]}
  \cup {[kind |-> "BitField", bitfield |-> <<128>>]}

\* the ways of cutting b into chunks at no more than MaxCuts places
RECURSIVE CutAt(_, _)
CutAt(b, cuts) ==
  IF cuts = {} THEN <<b>>
  ELSE LET c == Min(cuts)
       IN <<SubSeq(b, 1, c)>>
          \o CutAt(SubSeq(b, c + 1, Len(b)), {d - c : d \in cuts \ {c}})

\* the sets of no more than k places to cut a string of length n at
RECURSIVE CutSets(_, _)
CutSets(n, k) ==
  IF k = 0 THEN {{}}
  ELSE CutSets(n, k - 1)
       \cup {cs \cup {c} : cs \in CutSets(n, k - 1), c \in 1 .. n - 1}

Splits(b) == {CutAt(b, cuts) : cuts \in CutSets(Len(b), MaxCuts)}

\* PeerStreamIterator.parse: the buffer it leaves and what it returns, or
\* the exception a decode raises
parse(buf) ==
  IF Len(buf) > 4
  THEN LET message_length == UnpackI(Slice(buf, 0, 4))
           message_id == Unpackb(Slice(buf, 4, 5))
           data == Slice(buf, 0, 4 + message_length)
           consumed == Slice(buf, 4 + message_length, Len(buf))
       IN IF message_length = 0
            THEN [buffer |-> buf, result |-> [kind |-> "KeepAlive"]]
          ELSE IF Len(buf) >= message_length
            THEN IF message_id = IdBitField
                   THEN [buffer |-> consumed,
                         result |-> decode_bytes("BitField", data)]
                 ELSE IF message_id = IdInterested
                   THEN [buffer |-> consumed,
                         result |-> [kind |-> "Interested"]]
                 ELSE IF message_id = IdNotInterested
                   THEN [buffer |-> consumed,
                         result |-> [kind |-> "NotInterested"]]
                 ELSE IF message_id = IdChoke
                   THEN [buffer |-> consumed, result |-> [kind |-> "Choke"]]
                 ELSE IF message_id = IdUnchoke
                   THEN [buffer |-> consumed, result |-> [kind |-> "Unchoke"]]
                 ELSE IF message_id = IdHave
                   THEN [buffer |-> consumed,
                         result |-> decode_bytes("Have", data)]
                 ELSE IF message_id = IdPiece
                   THEN [buffer |-> consumed,
                         result |-> decode_bytes("Piece", data)]
                 ELSE IF message_id = IdRequest
                   THEN [buffer |-> consumed,
                         result |-> decode_bytes("Request", data)]
                 ELSE IF message_id = IdCancel
                   THEN [buffer |-> consumed,
                         result |-> decode_bytes("Cancel", data)]
                 ELSE [buffer |-> buf, result |-> RetNone]
          ELSE [buffer |-> buf, result |-> RetNone]
  ELSE [buffer |-> buf, result |-> RetNone]

\* no iterator yet
NoStream ==
  /\ chunks = <<>>
  /\ buffer = <<>>
  /\ yielded = <<>>
  /\ it_pc = "none"
  /\ fed = <<>>

\* PeerStreamIterator.__init__ on a reader that will be given the frames of
\* two messages, cut into chunks
StreamInit ==
  \E m1 \in StreamMessages, m2 \in StreamMessages :
    /\ fed = <<m1, m2>>
    /\ chunks \in Splits(Frame(m1) \o Frame(m2))
    /\ buffer = <<>>
    /\ yielded = <<>>
    /\ it_pc = "open"

\* the same for the frame of a Port message, an id parse has no branch
\* for, followed by the frame of a message it knows
StreamInitUnknown ==
  \E m2 \in StreamMessages :
    /\ fed = <<[kind |-> "Port", port |-> <<26, 225>>], m2>>
    /\ chunks \in Splits(Frame(fed[1]) \o Frame(fed[2]))
    /\ buffer = <<>>
    /\ yielded = <<>>
    /\ it_pc = "open"

\* what one parse call does to the iterator
Parsed(buf) ==
  /\ buffer' = parse(buf).buffer
  /\ yielded' = IF parse(buf).result.kind \in {"None", "raise"} THEN yielded
                ELSE Append(yielded, parse(buf).result)
  /\ it_pc' = IF parse(buf).result.kind = "raise" THEN "stopped" ELSE it_pc

\* __anext__, one turn of its loop in which read returns data
ReadData ==
  /\ it_pc = "open"
  /\ chunks # <<>>
  /\ Len(yielded) < MaxYield
  /\ chunks' = Tail(chunks)
  /\ Parsed(buffer \o Head(chunks))
  /\ UNCHANGED <<fed, pmvars, lastCall, connvars, codecvars, workervars, clientvars>>

\* __anext__, the turn of its loop in which read returns b'' at the end of
\* the stream
ReadEnd ==
  /\ it_pc = "open"
  /\ chunks = <<>>
  /\ Len(yielded) < MaxYield
  /\ IF buffer # <<>> /\ parse(buffer).result.kind \notin {"None", "raise"}
     THEN Parsed(buffer)
     ELSE /\ it_pc' = "stopped"
          /\ buffer' = IF buffer # <<>> THEN parse(buffer).buffer ELSE buffer
          /\ UNCHANGED yielded
  /\ UNCHANGED <<chunks, fed, pmvars, lastCall, connvars, codecvars, workervars, clientvars>>

\* ----------------------------------------------------------- encode/decode
Unset == [kind |-> "unset"]

Hashes == {[i \in 1 .. 20 |-> 7], [i \in 1 .. 20 |-> 200]}

CodecMessages ==
  {[kind |-> k] : k \in {"KeepAlive", "Choke", "Unchoke", "Interested",
                         "NotInterested"}}
  \cup {[kind |-> "Have", index |-> i] : i \in {0, 1, 255, 256}}
  \cup {[kind |-> k, index |-> i, begin |-> b, length |-> REQUEST_SIZE] :
          k \in {"Request", "Cancel"}, i \in {0, 1, 256},
          b \in {0, REQUEST_SIZE}}
  \cup {[kind |-> "Piece", index |-> i, begin |-> b, block |-> d] :
          i \in {0, 1, 256}, b \in {0, REQUEST_SIZE},
          d \in {<<>>, <<1, 2>>}}
  \cup {[kind |-> "BitField", bitfield |-> b] : b \in {<<128>>, <<255, 0>>}}
  \cup {[kind |-> "Handshake", info_hash |-> h, peer_id |-> q] :
          h \in Hashes, q \in Hashes}

NoCodec ==
  /\ message = Unset
  /\ encoded = Unset
  /\ decoded = Unset

CodecInit ==
  /\ message \in CodecMessages
  /\ encoded = Unset
  /\ decoded = Unset

\* message.encode()
Encode ==
  /\ message # Unset
  /\ encoded = Unset
  /\ encoded' = encode(message)
  /\ UNCHANGED <<message, decoded, pmvars, lastCall, connvars, streamvars, workervars, clientvars>>

\* type(message).decode(message.encode()); an exception of encode is the
\* exception of the whole expression
Decode ==
  /\ encoded # Unset
  /\ decoded = Unset
  /\ decoded' = IF encoded.kind = "raise" THEN encoded
                ELSE decode(message.kind, encoded)
  /\ UNCHANGED <<message, encoded, pmvars, lastCall, connvars, streamvars, workervars, clientvars>>

\* ------------------------------------------------- the worker of a connection
\* PeerConnection.start outside its message loop.  A step runs the worker
\* from one suspension to the next: await queue.get() on an empty queue and
\* await asyncio.open_connection.  queue.get() on a queue that holds an item
\* returns without suspending.  A cancellation asked for while the task runs
\* is delivered at its next suspension.
Addrs == {"P1", "P2"}

\* a peer the tracker named: its address, and whether the handshake it
\* answers with carries our info hash
QueuedPeers == [addr : Addrs, same_torrent : BOOLEAN]

NoPeer == [addr |-> None, same_torrent |-> TRUE]

PeerLists == UNION {[1 .. k -> QueuedPeers] : k \in 0 .. MaxQueue}

\* no worker has run yet
NewWorkers ==
  /\ conn_peer = [c \in Conns |-> NoPeer]
  /\ writer = [c \in Conns |-> "None"]
  /\ cancel_requested = [c \in Conns |-> FALSE]
  /\ wrote = [c \in Conns |-> <<>>]
  /\ outcome = [c \in Conns |-> RetNone]

NoQueue ==
  /\ available_peers = <<>>
  /\ unfinished = 0

\* the task of the worker ends
WorkerEnds(c, how) ==
  /\ conn_pc' = [conn_pc EXCEPT ![c] = "ended"]
  /\ outcome' = [outcome EXCEPT ![c] = how]
  /\ UNCHANGED <<available_peers, conn_peer>>

\* the top of the while loop of start with the worker running: it leaves
\* the loop, takes the next peer, or suspends in queue.get()
LoopTop(c, how) ==
  /\ outcome' = [outcome EXCEPT ![c] = how]
  /\ IF FlagIn(my_state[c], "stopped")
     THEN /\ conn_pc' = [conn_pc EXCEPT ![c] = "ended"]
          /\ UNCHANGED <<available_peers, conn_peer>>
     ELSE IF available_peers # <<>>
     THEN /\ conn_pc' = [conn_pc EXCEPT ![c] = "connect"]
          /\ conn_peer' = [conn_peer EXCEPT ![c] = Head(available_peers)]
          /\ available_peers' = Tail(available_peers)
     ELSE /\ conn_pc' = [conn_pc EXCEPT ![c] = "get"]
          /\ UNCHANGED <<available_peers, conn_peer>>

\* PeerConnection.cancel, called by the worker itself: its task is not done
cancel(c) ==
  /\ cancel_requested' = [cancel_requested EXCEPT ![c] = TRUE]
  /\ writer' = [writer EXCEPT ![c] = IF @ = "None" THEN "None" ELSE "closed"]
  /\ unfinished' = unfinished - 1

\* the worker starts, or resumes in queue.get()
WorkerGet(c) ==
  /\ conn_pc[c] \in {"new", "get"}
  /\ IF cancel_requested[c]
     THEN /\ WorkerEnds(c, Raise("CancelledError"))
          /\ cancel_requested' = [cancel_requested EXCEPT ![c] = FALSE]
     ELSE /\ conn_pc[c] = "new" \/ available_peers # <<>>
          /\ LoopTop(c, outcome[c])
          /\ UNCHANGED cancel_requested
  /\ UNCHANGED <<unfinished, writer, wrote>>
  /\ UNCHANGED <<remote_id, my_state, peer_state, requested>>
  /\ UNCHANGED <<pmvars, lastCall, streamvars, codecvars, clientvars>>

\* the worker resumes from asyncio.open_connection.  With a cancellation to
\* deliver it is resumed with CancelledError, which line 160 names as
\* concurrent.futures.CancelledError: the same class as asyncio's up to
\* Python 3.7, where it is caught, and another one since, where it ends the
\* task.  Refused, the worker goes on to line 168.  Connected, it calls
\* handshake, whose first statement calls bencoding.encode with two
\* arguments and raises TypeError: line 163 catches it, calls cancel and
\* raises it again.
WorkerConnect(c) ==
  /\ conn_pc[c] = "connect"
  /\ IF cancel_requested[c]
     THEN \/ /\ WorkerEnds(c, Raise("CancelledError"))
             /\ cancel_requested' = [cancel_requested EXCEPT ![c] = FALSE]
             /\ UNCHANGED <<unfinished, writer>>
          \/ /\ cancel(c)
             /\ LoopTop(c, Raise("CancelledError"))
     ELSE \/ /\ cancel(c)
             /\ LoopTop(c, Raise("ConnectionRefusedError"))
          \/ /\ cancel_requested' = [cancel_requested EXCEPT ![c] = TRUE]
             /\ writer' = [writer EXCEPT ![c] = "closed"]
             /\ unfinished' = unfinished - 1
             /\ WorkerEnds(c, Raise("TypeError"))
  /\ UNCHANGED <<wrote, remote_id, my_state, peer_state, requested>>
  /\ UNCHANGED <<pmvars, lastCall, streamvars, codecvars, clientvars>>

\* PeerConnection.stop, called from outside the worker
stop(c) ==
  /\ my_state' = [my_state EXCEPT ![c] = FlagAppend(@, "stopped")]
  /\ cancel_requested' = [cancel_requested EXCEPT ![c] =
                            IF conn_pc[c] = "ended" THEN @ ELSE TRUE]

WorkerStop(c) ==
  /\ my_state[c]["stopped"] < MaxFlag
  /\ stop(c)
  /\ UNCHANGED <<conn_pc, remote_id, peer_state, requested>>
  /\ UNCHANGED <<available_peers, unfinished, conn_peer, writer, wrote,
                 outcome>>
  /\ UNCHANGED <<pmvars, lastCall, streamvars, codecvars, clientvars>>

\* ------------------------------------------------------------ TorrentClient
NoClient ==
  /\ client_pc = "none"
  /\ abort = FALSE
  /\ previous = None
  /\ interval = 0
  /\ client_exc = RetNone
  /\ tracker_says = RetNone

\* TorrentClient.start is taken from one suspension to the next: a step is
\* the construction of the workers (lines 32-45), or one turn of the while
\* loop up to its await.  tracker_says is what the tracker would answer to
\* an announce: an HTTP status and, with status 200, the bencoded fields.
TrackerResponses ==
  {[status |-> 500]}
  \cup [status : {200}, failure : BOOLEAN, peers : PeerLists,
        interval : {1, 2}]

FirstInterval == 1800

\* TorrentClient.__init__: nothing has run
NewClient ==
  /\ client_pc = "new"
  /\ conn_pc = [c \in Conns |-> "none"]

\* the state lines 32-45 of start are written to establish: the workers
\* constructed, no announce made yet
ClientInLoop ==
  /\ client_pc = "loop"
  /\ conn_pc = [c \in Conns |-> "new"]

\* TorrentClient.start, lines 32-40: MAX_PEER_CONNECTION is an int, and
\* iterating over it raises TypeError before a PeerConnection is built
ClientStart ==
  /\ client_pc = "new"
  /\ client_pc' = "failed"
  /\ client_exc' = Raise("TypeError")
  /\ UNCHANGED <<abort, previous, interval, tracker_says>>
  /\ UNCHANGED <<pmvars, lastCall, connvars, streamvars, codecvars,
                 workervars>>

\* TorrentClient.stop: every PeerConnection in self.peers is stopped
TorrentClient_stop_abort_only ==
  /\ abort' = TRUE
  /\ UNCHANGED <<my_state, cancel_requested>>

TorrentClient_stop ==
  /\ abort' = TRUE
  /\ my_state' = [c \in Conns |->
                    IF conn_pc[c] = "none" THEN my_state[c]
                    ELSE FlagAppend(my_state[c], "stopped")]
  /\ cancel_requested' = [c \in Conns |->
                            IF conn_pc[c] \in {"none", "ended"}
                            THEN cancel_requested[c]
                            ELSE TRUE]

\* the announce is due (line 57); the clock counts milliseconds
AnnounceDue ==
  previous = None \/ (previous + interval) * 1000 < now

\* one turn of the while loop.  A due announce evaluates
\* piece_manager.bytes_downloaded for the call of line 58, which reads
\* torrent.piece_legnth, an attribute Torrent does not have: AttributeError
\* ends start before the tracker is contacted.
ClientTurn ==
  /\ client_pc = "loop"
  /\ IF complete \/ abort
     THEN /\ TorrentClient_stop
          /\ client_pc' = "done"
          /\ UNCHANGED client_exc
     ELSE /\ IF AnnounceDue
             THEN /\ client_pc' = "failed"
                  /\ client_exc' = Raise("AttributeError")
             ELSE UNCHANGED <<client_pc, client_exc>>
          /\ UNCHANGED <<abort, my_state, cancel_requested>>
  /\ UNCHANGED <<previous, interval, tracker_says>>
  /\ UNCHANGED <<conn_pc, remote_id, peer_state, requested>>
  /\ UNCHANGED <<available_peers, unfinished, conn_peer, writer, wrote,
                 outcome>>
  /\ UNCHANGED <<pmvars, lastCall, streamvars, codecvars>>

\* TorrentClient.stop called from outside (cli.py, on KeyboardInterrupt)
ClientStop ==
  /\ ~abort
  /\ TorrentClient_stop
  /\ UNCHANGED <<client_pc, client_exc, previous, interval, tracker_says>>
  /\ UNCHANGED <<conn_pc, remote_id, peer_state, requested>>
  /\ UNCHANGED <<available_peers, unfinished, conn_peer, writer, wrote,
                 outcome>>
  /\ UNCHANGED <<pmvars, lastCall, streamvars, codecvars>>

\* the tracker changes its answer
TrackerChanges ==
  /\ \E r \in TrackerResponses : r # tracker_says /\ tracker_says' = r
  /\ UNCHANGED <<client_pc, abort, previous, interval, client_exc>>
  /\ UNCHANGED <<pmvars, lastCall, connvars, streamvars, codecvars,
                 workervars>>

Init ==
  /\ PieceManagerInit
  /\ now = 0
  /\ lastCall = Quiet
  /\ NewConnections
  /\ NoStream
  /\ NoCodec
  /\ NoQueue
  /\ NewWorkers
  /\ NoClient

Next ==
  \/ AddPeer
  \/ UpdatePeer
  \/ RemovePeer
  \/ NextRequest
  \/ SelfOngoing
  \/ GetRarestPiece
  \/ BlockRecieved
  \/ Tick

Spec == Init /\ [][Next]_vars

\* a block_recieved call that hands in the true data of its block
DeliversTrueData ==
  /\ BlockRecieved
  /\ \E k \in DOMAIN lastCall'.got :
       /\ pieces[lastCall'.piece].blocks[k].offset = lastCall'.offset
       /\ lastCall'.got[k] = TrueData(k)[k]

\* the piece manager with callers that keep asking for blocks and a peer
\* that keeps answering with the true data
SpecFair ==
  /\ Init
  /\ [][Next]_vars
  /\ WF_vars(NextRequest)
  /\ SF_vars(DeliversTrueData)

NextCall ==
  \/ AddPeerCall
  \/ UpdatePeerCall
  \/ RemovePeerCall
  \/ NextRequestCall
  \/ SelfOngoingCall
  \/ GetRarestPieceCall
  \/ BlockRecievedCall

\* the piece manager under any sequence of calls
SpecCalls == Init /\ [][NextCall]_vars

\* the piece manager as the deliveries see it: peers are added, pieces are
\* started, blocks are taken and delivered
NextDelivery ==
  \/ AddPeer
  \/ GetRarestPiece
  \/ SelfOngoing
  \/ BlockRecieved

SpecDelivery == Init /\ [][NextDelivery]_vars

\* PieceManager.__init__ on a metainfo.  The piece lengths are taken around
\* the multiples of REQUEST_SIZE, the sizes of the last piece around the
\* block boundaries and at the full piece length.
PieceLengths ==
  {a * REQUEST_SIZE + b : a \in 0 .. MaxBlocks, b \in {0, 1}} \ {0}

LastSizes(piece_length) ==
  {z \in {1, REQUEST_SIZE - 1, REQUEST_SIZE, REQUEST_SIZE + 1, piece_length} :
     z <= piece_length}

Metainfos ==
  {[piece_length |-> pl, total_size |-> 0, pieces |-> <<>>] :
     pl \in PieceLengths}
  \cup UNION {{[piece_length |-> pl,
                total_size |-> (n - 1) * pl + z,
                pieces |-> [k \in 1 .. n |-> Sha1(<<k>>)]] :
                 z \in LastSizes(pl)} :
              pl \in PieceLengths, n \in 1 .. MaxPieces}

\* PieceManager.initiate_pieces: line 42 calls math.ciel, which the math
\* module does not have, before the loop over the pieces is entered
initiate_pieces(metainfo) == Raise("AttributeError")

\* the object before line 31: the lists are empty
Unbuilt ==
  /\ total_pieces = 0
  /\ pieces = <<>>
  /\ missing_pieces = <<>>
  /\ ongoing_pieces = <<>>
  /\ have_pieces = <<>>
  /\ peers = <<>>
  /\ pending_blocks = <<>>
  /\ written = <<>>
  /\ now = 0

\* lines 24-33: the exception of line 31 leaves __init__ before
\* missing_pieces and total_pieces are set and before the file is opened
Construct ==
  /\ lastCall = Quiet
  /\ lastCall' = Call("initiate_pieces", None, initiate_pieces(torrent))
  /\ UNCHANGED <<pmvars, connvars, streamvars, codecvars, workervars,
                 clientvars>>

InitConstruct ==
  /\ torrent \in Metainfos
  /\ Unbuilt
  /\ lastCall = Quiet
  /\ NewConnections
  /\ NoStream
  /\ NoCodec
  /\ NoQueue
  /\ NewWorkers
  /\ NoClient

SpecConstruct == InitConstruct /\ [][Construct]_vars

\* the workers in their message loops, sharing one piece manager
InitConn ==
  /\ PieceManagerInit
  /\ now = 0
  /\ lastCall = Quiet
  /\ ConnectionsInLoop
  /\ NoStream
  /\ NoCodec
  /\ NoQueue
  /\ NewWorkers
  /\ NoClient

NextConn == OnMessage

SpecConn == InitConn /\ [][NextConn]_vars

\* one worker in its message loop, the others idle
NextOneConn == \E m \in LoopMessages : HandleMessage(1, m)

SpecOneConn == InitConn /\ [][NextOneConn]_vars

\* no piece manager is involved
NoPieceManager ==
  /\ total_pieces = 0
  /\ pieces = <<>>
  /\ missing_pieces = <<>>
  /\ ongoing_pieces = <<>>
  /\ have_pieces = <<>>
  /\ peers = <<>>
  /\ pending_blocks = <<>>
  /\ written = <<>>
  /\ torrent = [piece_length |-> REQUEST_SIZE, total_size |-> 0]
  /\ now = 0

\* a stream iterator reading the frames of two messages
InitStream ==
  /\ NoPieceManager
  /\ lastCall = Quiet
  /\ NewConnections
  /\ StreamInit
  /\ NoCodec
  /\ NoQueue
  /\ NewWorkers
  /\ NoClient

NextStream ==
  \/ ReadData
  \/ ReadEnd

SpecStream == InitStream /\ [][NextStream]_vars

\* a stream iterator reading a frame with an id it does not know, then a
\* frame it knows
InitStreamUnknown ==
  /\ NoPieceManager
  /\ lastCall = Quiet
  /\ NewConnections
  /\ StreamInitUnknown
  /\ NoCodec
  /\ NoQueue
  /\ NewWorkers
  /\ NoClient

SpecStreamUnknown == InitStreamUnknown /\ [][NextStream]_vars

\* one message encoded and decoded again
InitCodec ==
  /\ NoPieceManager
  /\ lastCall = Quiet
  /\ NewConnections
  /\ NoStream
  /\ CodecInit
  /\ NoQueue
  /\ NewWorkers
  /\ NoClient

NextCodec ==
  \/ Encode
  \/ Decode

SpecCodec == InitCodec /\ [][NextCodec]_vars

\* the workers, each against the queue of peers it was constructed with
InitWorker ==
  /\ PieceManagerInit
  /\ now = 0
  /\ lastCall = Quiet
  /\ NewConnections
  /\ NoStream
  /\ NoCodec
  /\ available_peers \in PeerLists
  /\ unfinished = Len(available_peers)
  /\ NewWorkers
  /\ NoClient

NextWorker ==
  \/ \E c \in Conns : WorkerGet(c)
  \/ \E c \in Conns : WorkerConnect(c)
  \/ \E c \in Conns : WorkerStop(c)

SpecWorker == InitWorker /\ [][NextWorker]_vars

\* a worker about to connect to a peer of the same torrent, whose reader
\* will be given the peer's handshake and the frame of one message, cut
\* into chunks
PeerHandshake ==
  encode([kind |-> "Handshake", info_hash |-> <<7>>, peer_id |-> <<65>>]).bytes

InitHandshake ==
  /\ NoPieceManager
  /\ lastCall = Quiet
  /\ conn_pc = [c \in Conns |-> IF c = 1 THEN "connect" ELSE "new"]
  /\ remote_id = [c \in Conns |-> None]
  /\ my_state = [c \in Conns |-> NoFlags]
  /\ peer_state = [c \in Conns |-> NoFlags]
  /\ requested = [c \in Conns |-> RetNone]
  /\ \E m \in StreamMessages :
       /\ fed = <<m>>
       /\ chunks \in Splits(PeerHandshake \o Frame(m))
  /\ buffer = <<>>
  /\ yielded = <<>>
  /\ it_pc = "none"
  /\ NoCodec
  /\ available_peers = <<>>
  /\ unfinished = 1
  /\ conn_peer = [c \in Conns |->
                    IF c = 1 THEN [addr |-> "P1", same_torrent |-> TRUE]
                    ELSE NoPeer]
  /\ writer = [c \in Conns |-> "None"]
  /\ cancel_requested = [c \in Conns |-> FALSE]
  /\ wrote = [c \in Conns |-> <<>>]
  /\ outcome = [c \in Conns |-> RetNone]
  /\ NoClient

NextHandshake == \E c \in Conns : WorkerConnect(c)

SpecHandshake == InitHandshake /\ [][NextHandshake]_vars

\* TorrentClient.start, line 70: the coordinator puts a peer of the tracker's
\* answer into the queue
PutPeer ==
  /\ Len(available_peers) < MaxQueue
  /\ \E p \in QueuedPeers : available_peers' = Append(available_peers, p)
  /\ unfinished' = unfinished + 1
  /\ UNCHANGED <<conn_peer, writer, cancel_requested, wrote, outcome>>
  /\ UNCHANGED <<pmvars, lastCall, connvars, streamvars, codecvars, clientvars>>

\* the workers of a client whose queue starts empty and is fed by the
\* announces; no worker comes to call the piece manager
InitWorkerFed ==
  /\ NoPieceManager
  /\ lastCall = Quiet
  /\ NewConnections
  /\ NoStream
  /\ NoCodec
  /\ NoQueue
  /\ NewWorkers
  /\ NoClient

NextWorkerFed ==
  \/ NextWorker
  \/ PutPeer

\* The event loop resumes every task that is ready, open_connection returns
\* or fails in the end, the getters of an asyncio queue are woken in the
\* order they came, and the announce loop keeps putting peers.
SpecWorkerFed ==
  /\ InitWorkerFed
  /\ [][NextWorkerFed]_vars
  /\ \A c \in Conns : SF_vars(WorkerGet(c)) /\ WF_vars(WorkerConnect(c))
  /\ WF_vars(PutPeer)

\* the coordinator, from its start or from the entry of its announce loop
InitClient ==
  /\ PieceManagerInit
  /\ now = 0
  /\ lastCall = Quiet
  /\ remote_id = [c \in Conns |-> None]
  /\ my_state = [c \in Conns |-> NoFlags]
  /\ peer_state = [c \in Conns |-> NoFlags]
  /\ requested = [c \in Conns |-> RetNone]
  /\ NoStream
  /\ NoCodec
  /\ NoQueue
  /\ NewWorkers
  /\ NewClient \/ ClientInLoop
  /\ abort = FALSE
  /\ previous = None
  /\ interval = FirstInterval
  /\ client_exc = RetNone
  /\ tracker_says = [status |-> 200, failure |-> FALSE, peers |-> <<>>,
                     interval |-> 1]

NextClient ==
  \/ ClientStart
  \/ ClientTurn
  \/ ClientStop
  \/ TrackerChanges
  \/ Tick

SpecClient == InitClient /\ [][NextClient]_vars

\* the coordinator's task is run whenever it can take a step
SpecClientFair ==
  /\ InitClient
  /\ [][NextClient]_vars
  /\ WF_vars(ClientStart)
  /\ WF_vars(ClientTurn)

\* a worker in the message loop is resumed from reader.read with the
\* cancellation that stop asked for.  Since Python 3.8 the CancelledError
\* raised is not the class lines 307 and 160 name, and it ends the task.
\* Up to 3.7 it is that class: __anext__ turns it into StopAsyncIteration,
\* the loop ends, line 168 calls cancel and the while test of line 76 is
\* made again.
LoopCancelled(c) ==
  /\ conn_pc[c] = "loop"
  /\ cancel_requested[c]
  /\ \/ /\ WorkerEnds(c, Raise("CancelledError"))
        /\ cancel_requested' = [cancel_requested EXCEPT ![c] = FALSE]
        /\ UNCHANGED <<unfinished, writer>>
     \/ /\ cancel(c)
        /\ LoopTop(c, Raise("CancelledError"))
  /\ UNCHANGED <<wrote, remote_id, my_state, peer_state, requested>>
  /\ UNCHANGED <<pmvars, lastCall, streamvars, codecvars, clientvars>>

\* the queues of at most one peer, of the same torrent
StopQueues ==
  {q \in PeerLists : Len(q) <= 1 /\ \A k \in DOMAIN q : q[k].same_torrent}

\* the client in its while loop with its workers running: one in the
\* message loop of a peer it took from the queue, the other about to ask
\* the queue for its first peer
InitStop ==
  /\ PieceManagerInit
  /\ now = 0
  /\ lastCall = Quiet
  /\ conn_pc = [c \in Conns |-> IF c = 1 THEN "loop" ELSE "new"]
  /\ \E id \in PeerIds :
       remote_id = [c \in Conns |-> IF c = 1 THEN id ELSE None]
  /\ my_state = [c \in Conns |->
                   [f \in StateFlags |->
                      IF c = 1 /\ f \in {"choked", "interested"}
                      THEN 1 ELSE 0]]
  /\ peer_state = [c \in Conns |-> NoFlags]
  /\ requested = [c \in Conns |-> RetNone]
  /\ NoStream
  /\ NoCodec
  /\ available_peers \in StopQueues
  /\ unfinished = Len(available_peers) + 1
  /\ conn_peer = [c \in Conns |->
                    IF c = 1 THEN [addr |-> "P1", same_torrent |-> TRUE]
                    ELSE NoPeer]
  /\ writer = [c \in Conns |-> IF c = 1 THEN "open" ELSE "None"]
  /\ cancel_requested = [c \in Conns |-> FALSE]
  /\ wrote = [c \in Conns |-> <<>>]
  /\ outcome = [c \in Conns |-> RetNone]
  /\ client_pc = "loop"
  /\ abort = FALSE
  /\ previous = None
  /\ interval = FirstInterval
  /\ client_exc = RetNone
  /\ tracker_says = [status |-> 200, failure |-> FALSE, peers |-> <<>>,
                     interval |-> 1]

NextStop ==
  \/ OnMessage
  \/ \E c \in Conns : LoopCancelled(c)
  \/ \E c \in Conns : WorkerGet(c)
  \/ \E c \in Conns : WorkerConnect(c)
  \/ ClientStop
  \/ ClientTurn

SpecStop == InitStop /\ [][NextStop]_vars

\* ------------------------------------------------------------- properties
IsSet(s) == \A j, k \in DOMAIN s : s[j] = s[k] => j = k

\* C1: in every reachable state the three buckets missing, ongoing and have
\* hold no piece twice, are pairwise disjoint, and together hold exactly the
\* pieces built at start-up.
C1_BucketsPartition ==
  /\ IsSet(missing_pieces) /\ IsSet(ongoing_pieces) /\ IsSet(have_pieces)
  /\ Range(missing_pieces) \cap Range(ongoing_pieces) = {}
  /\ Range(ongoing_pieces) \cap Range(have_pieces) = {}
  /\ Range(missing_pieces) \cap Range(have_pieces) = {}
  /\ Range(missing_pieces) \cup Range(ongoing_pieces) \cup Range(have_pieces)
       = DOMAIN pieces

\* C1 witness: one piece is still missing while a block handed out for an
\* ongoing piece has been delivered (it is Pending and its pending request
\* is gone).
C1_Witness ==
  /\ missing_pieces # <<>>
  /\ \E j \in DOMAIN ongoing_pieces :
     \E k \in DOMAIN pieces[ongoing_pieces[j]].blocks :
       /\ pieces[ongoing_pieces[j]].blocks[k].status = Pending
       /\ MatchingRequests(ongoing_pieces[j],
                           pieces[ongoing_pieces[j]].blocks[k].offset) = {}

\* C2: when a delivery to block_recieved completes the cover of an ongoing
\* piece and the digest of the delivered blocks, concatenated by offset, is
\* the piece's digest, the piece leaves ongoing, enters have and the file
\* holds that concatenation from index * piece_length on.
C2_AssembledPieceIsStored ==
  [][(/\ lastCall'.op = "block_recieved"
      /\ lastCall'.piece \in Range(ongoing_pieces)
      /\ Covers(lastCall'.got)
      /\ Sha1(Concat(lastCall'.got)) = pieces[lastCall'.piece].hash)
     => (/\ lastCall'.piece \notin Range(ongoing_pieces')
         /\ lastCall'.piece \in Range(have_pieces')
         /\ \E k \in DOMAIN written' :
              /\ written'[k].pos = lastCall'.piece * torrent.piece_length
              /\ written'[k].data = Concat(lastCall'.got))]_vars

\* C3: when a delivery to block_recieved completes the cover of an ongoing
\* piece and the digest does not match, every block of the piece is Missing
\* afterwards, the piece is not in have and nothing is written.
C3_CorruptPieceIsReset ==
  [][(/\ lastCall'.op = "block_recieved"
      /\ lastCall'.piece \in Range(ongoing_pieces)
      /\ Covers(lastCall'.got)
      /\ Sha1(Concat(lastCall'.got)) # pieces[lastCall'.piece].hash)
     => (/\ \A k \in DOMAIN pieces'[lastCall'.piece].blocks :
              pieces'[lastCall'.piece].blocks[k].status = Missing
         /\ lastCall'.piece \notin Range(have_pieces')
         /\ written' = written)]_vars

\* C4: complete is true exactly when every piece is in have, and then every
\* piece's range of the file has been written; it is false while a piece is
\* in missing or ongoing.
C4_CompleteIffAllHave ==
  /\ complete <=> (\A i \in DOMAIN pieces : i \in Range(have_pieces))
  /\ (missing_pieces # <<>> \/ ongoing_pieces # <<>>) => ~complete
  /\ complete =>
       \A i \in DOMAIN pieces :
         \E k \in DOMAIN written : written[k].pos = i * torrent.piece_length

\* C4 witness: every piece has been started, none is verified yet, and
\* complete is false.
C4_Witness ==
  /\ missing_pieces = <<>>
  /\ ongoing_pieces # <<>>
  /\ ~complete

\* the block of the first expired pending request the peer can serve
FirstExpired(peer_id) == pending_blocks[Min(ExpiredFor(peer_id))].block

\* C6: a next_request(peer) made while a pending request for a piece the
\* peer claims is older than max_pending_time returns the block of that
\* request.
C6_ExpiredBlockFirst ==
  [][(/\ lastCall'.op = "next_request"
      /\ lastCall'.peer \in DOMAIN peers
      /\ ExpiredFor(lastCall'.peer) # {})
     => lastCall'.result = RetBlock(FirstExpired(lastCall'.peer).piece,
                                    FirstExpired(lastCall'.peer).offset)]_vars

\* how many known peers claim the piece
Availability(i) == Cardinality({q \in DOMAIN peers : peers[q][i]})

\* the missing pieces the peer claims
Candidates(peer_id) == {i \in Range(missing_pieces) : peers[peer_id][i]}

\* the earliest-indexed of the candidates that the fewest peers claim
Rarest(peer_id) ==
  Min({i \in Candidates(peer_id) :
         \A j \in Candidates(peer_id) : Availability(i) <= Availability(j)})

\* C7: a next_request(peer) that finds no expired request and no ongoing
\* piece to continue, while the peer claims a missing piece, moves the
\* rarest such piece (the earliest-indexed on a tie) from missing to
\* ongoing and returns its first block.
C7_RarestPieceFirst ==
  [][(/\ lastCall'.op = "next_request"
      /\ lastCall'.peer \in DOMAIN peers
      /\ ExpiredFor(lastCall'.peer) = {}
      /\ OngoingFor(lastCall'.peer) = {}
      /\ Candidates(lastCall'.peer) # {})
     => (/\ Rarest(lastCall'.peer) \notin Range(missing_pieces')
         /\ Rarest(lastCall'.peer) \in Range(ongoing_pieces')
         /\ lastCall'.result =
              RetBlock(Rarest(lastCall'.peer),
                       pieces[Rarest(lastCall'.peer)].blocks[1].offset))]_vars

\* C8: a next_request(peer) that reissues an expired pending request keeps
\* the table's blocks as they were and sets the first-request time of the
\* reissued entry to the current time, so that the entry is no longer
\* expired.
C8_ReissueRefreshesEntry ==
  [][(/\ lastCall'.op = "next_request"
      /\ lastCall'.peer \in DOMAIN peers
      /\ ExpiredFor(lastCall'.peer) # {})
     => (/\ Len(pending_blocks') = Len(pending_blocks)
         /\ \A k \in DOMAIN pending_blocks :
              pending_blocks'[k].block = pending_blocks[k].block
         /\ pending_blocks'[Min(ExpiredFor(lastCall'.peer))].added = now
         /\ pending_blocks'[Min(ExpiredFor(lastCall'.peer))].added
              + max_pending_time >= now')]_vars

\* C5: in every reachable state a connection whose my_state holds
\* 'pending_request' has written a Request for a block, and the pending
\* table of the piece manager holds exactly one entry for that block.
C5_InFlightHasOneEntry ==
  \A c \in Conns :
    FlagIn(my_state[c], "pending_request") =>
      /\ requested[c] # RetNone
      /\ Cardinality({k \in DOMAIN pending_blocks :
                        /\ pending_blocks[k].block.piece = requested[c].piece
                        /\ pending_blocks[k].block.offset
                             = requested[c].offset}) = 1

\* C9: once the iterator has stopped, after reading the frames of two
\* messages in chunks, it has yielded exactly those two messages in order
\* and its buffer is empty.
C9_ChunkedFramesYieldBoth ==
  it_pc = "stopped" => yielded = fed /\ buffer = <<>>

\* C10: decoding what encode produced for a message gives a message of the
\* same kind with the same field values.
C10_DecodeOfEncode ==
  decoded # Unset => decoded = message

\* the step in which the open_connection of worker c succeeded: only then
\* is its writer assigned
Connected(c) == conn_pc[c] = "connect" /\ writer'[c] # writer[c]

\* C11: a worker that connects to a peer whose handshake carries another
\* info hash ends the attempt with ProtocolError without reaching the
\* message loop, having written no Interested and no Request, with its
\* writer closed and the queue told that the peer is done with.
C11_WrongHashIsProtocolError ==
  [][\A c \in Conns :
       Connected(c) /\ ~conn_peer[c].same_torrent =>
         /\ outcome'[c] = Raise("ProtocolError")
         /\ conn_pc'[c] # "loop"
         /\ "Interested" \notin Range(wrote'[c])
         /\ "Request" \notin Range(wrote'[c])
         /\ writer'[c] = "closed"
         /\ unfinished' = unfinished - 1]_vars

\* the step in which the coordinator makes an announce that is due
Announces ==
  /\ client_pc = "loop"
  /\ ~complete /\ ~abort
  /\ AnnounceDue
  /\ <<client_pc, previous, available_peers>>'
       # <<client_pc, previous, available_peers>>

Succeeds(response) == response.status = 200 /\ ~response.failure

\* C12: an announce the tracker answers successfully leaves in the queue
\* exactly the peers of the answer, in order, whatever it held before, and
\* the coordinator running.
C12_AnnounceReplacesQueue ==
  [][Announces /\ Succeeds(tracker_says) =>
       /\ available_peers' = tracker_says.peers
       /\ client_pc' = "loop"]_vars

\* C13: in every reachable state a connection has at most one request
\* outstanding: 'pending_request' occurs at most once in my_state, that is,
\* request_piece has not been called a second time since the last Piece
\* was handled.
C13_OneRequestOutstanding ==
  \A c \in Conns : my_state[c]["pending_request"] <= 1

\* C13 witness: a connection in its loop has one request outstanding and
\* has since handled a Choke without asking for another block.
C13_Witness ==
  \E c \in Conns :
    /\ conn_pc[c] = "loop"
    /\ my_state[c]["pending_request"] = 1
    /\ FlagIn(my_state[c], "choked")

\* every worker has been constructed and stopped
AllStopped ==
  \A c \in Conns : conn_pc[c] # "none" /\ FlagIn(my_state[c], "stopped")

\* C14: once the piece manager reports complete or the abort flag is set,
\* the coordinator eventually leaves its loop through stop, with every
\* worker it was to construct stopped.
C14_CoordinatorStopsAll ==
  (complete \/ abort) ~> (client_pc = "done" /\ AllStopped)

\* the peer claims a piece that is still in missing or in ongoing
ClaimsUnfinished(peer_id) ==
  /\ peer_id \in DOMAIN peers
  /\ \E i \in Range(missing_pieces) \cup Range(ongoing_pieces) :
       peers[peer_id][i]

\* C15: next_request(peer) returns None, without raising, exactly when no
\* piece the peer claims is in missing or in ongoing.
C15_NoneIffNothingClaimed ==
  [][lastCall'.op = "next_request" =>
       (lastCall'.result = RetNone <=> ~ClaimsUnfinished(lastCall'.peer))]_vars

\* C16: while an announce is due that the tracker answers with a failure
\* (a status other than 200, or a failure reason), no step ends the
\* coordinator or changes the peer queue or the announce interval: the
\* coordinator stays in its loop to try again.
C16_TrackerFailureIsSurvived ==
  [][(/\ client_pc = "loop"
      /\ ~complete /\ ~abort
      /\ AnnounceDue
      /\ ~Succeeds(tracker_says))
     => (/\ client_pc' = "loop"
         /\ client_exc' = RetNone
         /\ available_peers' = available_peers
         /\ interval' = interval)]_vars

\* C17: once the iterator has stopped after reading a frame with an unknown
\* id followed by the frame of a message, it has taken the unknown frame
\* out of its buffer and yielded the message that followed.
C17_UnknownIdIsSkipped ==
  it_pc = "stopped" => yielded = <<fed[2]>> /\ buffer = <<>>

\* the last delivery completed the cover of ongoing piece i with data whose
\* digest is not the piece's
CorruptlyCovered(i) ==
  /\ lastCall.op = "block_recieved"
  /\ lastCall.piece = i
  /\ i \in Range(ongoing_pieces)
  /\ Covers(lastCall.got)
  /\ Sha1(Concat(lastCall.got)) # pieces[i].hash

\* C18: a piece that was delivered in full with a wrong digest eventually
\* enters have, when blocks keep being asked for and the true data keeps
\* being delivered.
C18_CorruptPieceRecovers ==
  \A i \in 0 .. (MaxPieces - 1) :
    CorruptlyCovered(i) ~> (i \in Range(have_pieces))

\* C19: a next_request(peer) that has a block to hand out without reissuing
\* an expired one (the peer claims an ongoing piece with a Missing block, or
\* a missing piece that the rarest-first step then starts) returns a block
\* for which the pending-request table holds an entry afterwards, so that
\* the block can be offered again once that entry has expired.
C19_HandedOutBlockHasEntry ==
  [][(/\ lastCall'.op = "next_request"
      /\ lastCall'.peer \in DOMAIN peers
      /\ ExpiredFor(lastCall'.peer) = {}
      /\ (OngoingFor(lastCall'.peer) # {} \/ Candidates(lastCall'.peer) # {}))
     => (/\ lastCall'.result.kind = "block"
         /\ \E k \in DOMAIN pending_blocks' :
              /\ pending_blocks'[k].block.piece = lastCall'.result.piece
              /\ pending_blocks'[k].block.offset
                   = lastCall'.result.offset)]_vars

\* C20: a step of the connection loop that sets 'pending_request' in
\* my_state has got a block from the piece manager and has written a
\* Request for it; when no block is returned the flag stays clear, and the
\* connection asks again after the next message.
C20_FlagOnlyWithRequestSent ==
  [][\A c \in Conns :
       (/\ ~FlagIn(my_state[c], "pending_request")
        /\ FlagIn(my_state'[c], "pending_request"))
       => (/\ requested'[c].kind = "block"
           /\ wrote'[c] = Append(wrote[c], "Request"))]_vars

\* C21: the loop body for a Choke message leaves 'choked' in my_state and
\* 'pending_request' out of it, so that the Unchoke that follows finds no
\* request in flight and asks for a block.
C21_ChokeClearsInFlight ==
  [][\A c \in Conns :
       HandleMessage(c, [kind |-> "Choke"])
       => (/\ FlagIn(my_state'[c], "choked")
           /\ ~FlagIn(my_state'[c], "pending_request"))]_vars

\* C22: the loop body for an Unchoke message leaves no 'choked' in my_state,
\* however many Choke messages were handled before it.
C22_UnchokeUnchokes ==
  [][\A c \in Conns :
       HandleMessage(c, [kind |-> "Unchoke"])
       => ~FlagIn(my_state'[c], "choked")]_vars

\* the Piece messages a peer can send
PieceMessages == {m \in LoopMessages : m.kind = "Piece"}

\* C23: the loop body for a Piece message, whether or not 'pending_request'
\* is in my_state, leaves the flag out of my_state, hands the block to the
\* piece manager (the pending request for it is gone afterwards) and leaves
\* the connection in its message loop.
C23_PieceAlwaysDelivered ==
  [][\A c \in Conns : \A m \in PieceMessages :
       HandleMessage(c, m)
       => (/\ ~FlagIn(my_state'[c], "pending_request")
           /\ conn_pc'[c] = "loop"
           /\ \A k \in DOMAIN pending_blocks' :
                ~(/\ pending_blocks'[k].block.piece = m.index
                  /\ pending_blocks'[k].block.offset = m.begin))]_vars

\* my_state as lines 95-97 of start are to leave it for a peer
ChokedInterested ==
  [f \in StateFlags |-> IF f \in {"choked", "interested"} THEN 1 ELSE 0]

\* C24: a worker that connects to a peer of the same torrent enters the
\* message loop having written Interested, with my_state exactly
\* {choked, interested} and no request in flight, whatever the worker did
\* for an earlier peer.
C24_LoopEnteredFresh ==
  [][\A c \in Conns :
       Connected(c) /\ conn_peer[c].same_torrent =>
         /\ conn_pc'[c] = "loop"
         /\ my_state'[c] = ChokedInterested
         /\ requested'[c] = RetNone
         /\ wrote'[c] = Append(wrote[c], "Interested")]_vars

\* the worker waits in queue.get() after a connect that failed
WaitsAfterRefusal(c) ==
  /\ conn_pc[c] = "get"
  /\ outcome[c] = Raise("ConnectionRefusedError")
  /\ ~FlagIn(my_state[c], "stopped")

\* C25: a worker whose connect was refused and that waits for the queue
\* takes another peer in the end, unless it is stopped first.
C25_RefusedWorkerTakesNext ==
  \A c \in Conns :
    WaitsAfterRefusal(c)
      ~> (conn_pc[c] = "connect" \/ FlagIn(my_state[c], "stopped"))

\* the workers that hold a peer taken from the queue
Holding == {c \in Conns : conn_pc[c] \in {"connect", "loop"}}

\* C26: every peer taken from the queue whose connection has ended, however
\* it ended, has had task_done called for it exactly once (the queue's
\* unfinished count is the peers still queued plus the peers held), and no
\* worker without a peer has a writer left open.
C26_SlotReturnedOnce ==
  /\ unfinished = Len(available_peers) + Cardinality(Holding)
  /\ \A c \in Conns \ Holding : writer[c] # "open"

\* C27: a call of block_recieved leaves no pending request for the piece
\* and offset it names, and when the piece is not ongoing it returns
\* without raising and leaves the three buckets, every block, the file and
\* the peers as they were.
C27_DropLeavesStateAlone ==
  [][lastCall'.op = "block_recieved"
     => (/\ \A k \in DOMAIN pending_blocks' :
              ~(/\ pending_blocks'[k].block.piece = lastCall'.piece
                /\ pending_blocks'[k].block.offset = lastCall'.offset)
         /\ lastCall'.piece \notin Range(ongoing_pieces)
              => (/\ lastCall'.result = RetNone
                  /\ UNCHANGED <<total_pieces, pieces, missing_pieces,
                                 ongoing_pieces, have_pieces, peers,
                                 written>>))]_vars

\* C27 witness: a block has been delivered for a piece that is not ongoing,
\* while another piece is ongoing and has a request pending.
C27_Witness ==
  /\ lastCall.op = "block_recieved"
  /\ lastCall.piece \notin Range(ongoing_pieces)
  /\ lastCall.result = RetNone
  /\ pending_blocks # <<>>

\* the first Missing block of the first ongoing piece the peer claims
FirstOngoingBlock(peer_id) ==
  Piece_next_request(pieces[ongoing_pieces[Min(OngoingFor(peer_id))]]).ret

\* C28: a next_request(peer) made while no request the peer can serve has
\* expired and an ongoing piece the peer claims has a Missing block returns
\* the first such block of the first such piece, marks it Pending, appends
\* a pending request for it stamped with the current time, and starts no
\* new piece.
C28_OngoingBeforeNew ==
  [][(/\ lastCall'.op = "next_request"
      /\ lastCall'.peer \in DOMAIN peers
      /\ ExpiredFor(lastCall'.peer) = {}
      /\ OngoingFor(lastCall'.peer) # {})
     => (/\ lastCall'.result
              = RetBlock(FirstOngoingBlock(lastCall'.peer).piece,
                         FirstOngoingBlock(lastCall'.peer).offset)
         /\ pending_blocks'
              = Append(pending_blocks,
                       [block |-> [piece |-> lastCall'.result.piece,
                                   offset |-> lastCall'.result.offset],
                        added |-> now])
         /\ \E k \in DOMAIN pieces'[lastCall'.result.piece].blocks :
              /\ pieces'[lastCall'.result.piece].blocks[k].offset
                   = lastCall'.result.offset
              /\ pieces'[lastCall'.result.piece].blocks[k].status = Pending
         /\ missing_pieces' = missing_pieces
         /\ ongoing_pieces' = ongoing_pieces)]_vars

\* the connection to its peer has ended and no other worker is in the
\* message loop with a peer of the same id
Disconnected(c) ==
  /\ conn_pc[c] \in {"failed", "ended"}
  /\ \A o \in Conns \ {c} :
       conn_pc[o] = "loop" => remote_id[o] # remote_id[c]

\* C29: once the connection to a peer has ended, the peer's id is no key of
\* the piece manager's peers, so that it counts for no piece's availability
\* and next_request for it returns None.
C29_EndedPeerIsRemoved ==
  \A c \in Conns :
    Disconnected(c) =>
      /\ remote_id[c] \notin DOMAIN peers
      /\ next_request_result(remote_id[c]) = RetNone

\* the argument first of the call of Tracker.connect (torrent_client.py:59,
\* previous if previous else False), as the test of tracker.py:58 takes it:
\* the request carries event=started exactly when it is true
first == previous # None

\* C30: an announce made while none has succeeded yet (previous is None) is
\* sent with event=started and an announce made later without it; the
\* announce reaches the tracker and the coordinator goes on, so that the
\* time of the announce is what the next one is measured from.
C30_StartedOnFirstOnly ==
  [][Announces =>
       /\ first <=> previous = None
       /\ client_pc' = "loop"
       /\ Succeeds(tracker_says) => previous' # None]_vars

\* the size of piece i of the metainfo
PieceSize(metainfo, i) ==
  IF i < Len(metainfo.pieces) - 1 THEN metainfo.piece_length
  ELSE metainfo.total_size - (Len(metainfo.pieces) - 1) * metainfo.piece_length

CeilDiv(a, b) == (a + b - 1) \div b

\* the blocks cover [0, size) without a gap, each of at most REQUEST_SIZE
Contiguous(blocks, size) ==
  /\ Len(blocks) = CeilDiv(size, REQUEST_SIZE)
  /\ Len(blocks) > 0
  /\ \A k \in DOMAIN blocks :
       /\ blocks[k].offset = (k - 1) * REQUEST_SIZE
       /\ blocks[k].length = IF k < Len(blocks) THEN REQUEST_SIZE
                             ELSE size - (k - 1) * REQUEST_SIZE

\* C31: initiate_pieces returns one piece per hash of the metainfo, and the
\* blocks of piece i are ceil(piece_size_i / REQUEST_SIZE) blocks that start
\* at offset 0, follow one another and add up to the size of the piece; no
\* piece has zero blocks.
C31_BlocksCoverEveryPiece ==
  lastCall.op = "initiate_pieces" =>
    /\ lastCall.result.kind = "pieces"
    /\ Len(lastCall.result.pieces) = Len(torrent.pieces)
    /\ \A i \in 0 .. (Len(torrent.pieces) - 1) :
         Contiguous(lastCall.result.pieces[i + 1].blocks,
                    PieceSize(torrent, i))

\* the reads of the handshake loop: chunks are taken and added up until 68
\* bytes are there
RECURSIVE HandshakeReads(_, _)
HandshakeReads(buf, chs) ==
  IF Len(buf) >= 68 \/ chs = <<>> THEN [buf |-> buf, rest |-> chs]
  ELSE HandshakeReads(buf \o Head(chs), Tail(chs))

\* C32: a worker that connects to a peer of the same torrent whose handshake
\* arrives in several chunks takes the peer's id from the first 68 bytes it
\* has read, goes on, and leaves the bytes read after them to the stream
\* iterator and the chunks not yet read to the reader.
C32_SplitHandshakeAccepted ==
  [][\A c \in Conns :
       Connected(c) /\ conn_peer[c].same_torrent =>
         /\ outcome'[c].kind # "raise"
         /\ remote_id'[c] # None
         /\ buffer' = Slice(HandshakeReads(<<>>, chunks).buf, 68,
                            Len(HandshakeReads(<<>>, chunks).buf))
         /\ chunks' = HandshakeReads(<<>>, chunks).rest]_vars

\* the bytes of the frames the peer sent from the k-th message on
FramesFrom(k) ==
  Concat([j \in 1 .. (Len(fed) - k + 1) |-> Frame(fed[j + k - 1])])

IsPrefix(s, t) ==
  /\ Len(s) <= Len(t)
  /\ \A k \in DOMAIN s : s[k] = t[k]

\* C33: for a peer that sends no keep-alive, the iterator has yielded only
\* messages whose whole frame it had read, in the order sent; the bytes of
\* the frames not yet yielded are all still in its buffer or to be read,
\* and it has not stopped while chunks were still to come.
C33_OnlyWholeFramesDecoded ==
  (\A k \in DOMAIN fed : fed[k].kind # "KeepAlive") =>
    /\ IsPrefix(yielded, fed)
    /\ buffer \o Concat(chunks) = FramesFrom(Len(yielded) + 1)
    /\ it_pc = "stopped" => chunks = <<>>

\* the buffer starts with a whole frame: the length prefix and as many bytes
\* as it announces
HoldsWholeFrame(buf) ==
  /\ Len(buf) >= 4
  /\ Len(buf) >= 4 + UnpackI(Slice(buf, 0, 4))

\* C37: for a peer that sends no keep-alive, whenever the iterator is about
\* to read from the socket again its buffer holds no whole frame: the
\* frames that came in one read have all been yielded.
C37_NoWholeFrameLeftWaiting ==
  (\A k \in DOMAIN fed : fed[k].kind # "KeepAlive") =>
    (it_pc = "open" => ~HoldsWholeFrame(buffer))

\* C34: in every reachable state no two pending requests name the same
\* block, and every pending request names a block that is Pending, of a
\* piece that is ongoing and not in have.
C34_PendingTableIsExact ==
  /\ \A j \in DOMAIN pending_blocks : \A k \in DOMAIN pending_blocks :
       j # k => pending_blocks[j].block # pending_blocks[k].block
  /\ \A k \in DOMAIN pending_blocks :
       /\ pending_blocks[k].block.piece \in Range(ongoing_pieces)
       /\ pending_blocks[k].block.piece \notin Range(have_pieces)
       /\ \E n \in DOMAIN pieces[pending_blocks[k].block.piece].blocks :
            /\ pieces[pending_blocks[k].block.piece].blocks[n].offset
                 = pending_blocks[k].block.offset
            /\ pieces[pending_blocks[k].block.piece].blocks[n].status
                 = Pending

\* C34 witness: two requests are pending while another block that was
\* handed out has been delivered and its request removed.
C34_Witness ==
  /\ Len(pending_blocks) >= 2
  /\ \E i \in Range(ongoing_pieces) : \E n \in DOMAIN pieces[i].blocks :
       /\ pieces[i].blocks[n].status = Pending
       /\ MatchingRequests(i, pieces[i].blocks[n].offset) = {}

\* the last call delivered the block that completed piece i with the data
\* the metainfo's digest is of
Verified(i) ==
  /\ lastCall.op = "block_recieved"
  /\ lastCall.piece = i
  /\ i \in Range(ongoing_pieces) \cup Range(have_pieces)
  /\ Covers(lastCall.got)
  /\ Sha1(Concat(lastCall.got)) = pieces[i].hash

\* how often the file range of piece i has been written
WritesOf(i) ==
  Cardinality({k \in DOMAIN written :
                 written[k].pos = i * torrent.piece_length})

WorkerEffects ==
  <<pieces, missing_pieces, ongoing_pieces, have_pieces, peers,
    pending_blocks, written, requested, wrote, available_peers, conn_peer>>

\* C36: once the client's stop has run, no step of a worker delivers a
\* block to the piece manager, writes to the file, records or writes a
\* Request, or takes a peer from the queue, in whatever order stop and the
\* workers' steps come.
C36_NothingAfterStop ==
  [][abort => UNCHANGED WorkerEffects]_vars

\* stop has run while a worker was in the message loop and peers were
\* queued, and that worker's task has ended with the peers still queued
C36_Witness ==
  /\ abort
  /\ conn_pc[1] = "ended"
  /\ outcome[1] = Raise("CancelledError")
  /\ available_peers # <<>>

\* connection c asks the piece manager for a block in this step (line 152
\* marks the request before request_piece calls next_request)
Asks(c) ==
  my_state'[c]["pending_request"] > my_state[c]["pending_request"]

\* the block is in flight at a connection other than c
InFlightElsewhere(c, block) ==
  \E o \in Conns \ {c} : requested[o] = block

====
